---- MODULE Spec2Model ----
(***************************************************************************)
(* Model of tools/add-openclaw-metadata.py: the SKILL.md metadata          *)
(* injector.  Text is modelled as a sequence of characters (one-character  *)
(* strings; an emoji code point is one character named "U+XXXX"), so that  *)
(* startswith, index, split and join are computed the way Python computes  *)
(* them.                                                                   *)
(***************************************************************************)
EXTENDS Integers, Sequences, FiniteSets, TLC

\* ------------------------------------------------------------------------
\* Bounds of the model
\* ------------------------------------------------------------------------
MaxLines == 4

MaxFiles == 2

MaxRuns == 2

\* ------------------------------------------------------------------------
\* Python str primitives over character sequences
\* ------------------------------------------------------------------------
NL == "\n"

\* s[i:i+len(sub)] == sub, with i a 0-based offset
MatchAt(s, sub, i) ==
  /\ i >= 0
  /\ i + Len(sub) <= Len(s)
  /\ \A j \in 1..Len(sub) : s[i + j] = sub[j]

\* str.startswith
StartsWith(s, prefix) == MatchAt(s, prefix, 0)

\* the 0-based offsets >= start at which sub occurs in s
Occurrences(s, sub, start) ==
  IF Len(sub) = 0 THEN start..Len(s)
  ELSE { i \in { j \in start..(Len(s) - Len(sub)) : s[j + 1] = sub[1] } :
           MatchAt(s, sub, i) }

\* str.find: the lowest offset >= start at which sub occurs, -1 if none
Find(s, sub, start) ==
  LET occ == Occurrences(s, sub, start)
  IN  IF occ = {} THEN -1
      ELSE CHOOSE i \in occ : \A j \in occ : i <= j

\* the `in` operator on strings
Contains(s, sub) == Find(s, sub, 0) # -1

\* s[a:b] for 0 <= a, with Python's clamping of b
Slice(s, a, b) ==
  LET hi == IF b > Len(s) THEN Len(s) ELSE b
  IN  IF a >= hi THEN << >> ELSE SubSeq(s, a + 1, hi)

\* s[a:]
SliceFrom(s, a) == Slice(s, a, Len(s))

\* str.split(sep) for a non-empty sep
RECURSIVE Split(_, _)
Split(s, sep) ==
  LET i == Find(s, sep, 0)
  IN  IF i = -1 THEN << s >>
      ELSE << Slice(s, 0, i) >> \o Split(SliceFrom(s, i + Len(sep)), sep)

\* sep.join(parts)
RECURSIVE Join(_, _)
Join(parts, sep) ==
  IF Len(parts) = 0 THEN << >>
  ELSE IF Len(parts) = 1 THEN parts[1]
  ELSE parts[1] \o sep \o Join(Tail(parts), sep)

\* ------------------------------------------------------------------------
\* String literals of the source
\* ------------------------------------------------------------------------
\* "---\n"
START_MARKER ==
  <<"-","-","-",NL>>

\* "\n---\n"
END_MARKER ==
  <<NL,"-","-","-",NL>>

\* "\nmetadata:"
NL_METADATA ==
  <<NL,"m","e","t","a","d","a","t","a",":">>

\* "description:"
DESCRIPTION_KEY ==
  <<"d","e","s","c","r","i","p","t","i","o","n",":">>

\* "user-invocable:"
USER_INVOCABLE_KEY ==
  <<"u","s","e","r","-","i","n","v","o","c","a","b","l","e",":">>

\* "user-invocable: true"
USER_INVOCABLE_LINE ==
  <<"u","s","e","r","-","i","n","v","o","c","a","b","l","e",":"," ","t","r","u","e">>

\* "personas/"
PERSONAS_PREFIX ==
  <<"p","e","r","s","o","n","a","s","/">>

\* "/"
SLASH ==
  <<"/">>

\* the text of json.dumps up to the emoji: metadata: {"openclaw": {"emoji": "
METADATA_HEAD ==
  <<"m","e","t","a","d","a","t","a",":"," ","{","\"","o","p","e","n","c","l","a","w","\"",":"," ","{","\"","e","m","o","j","i","\"",":"," ","\"">>

\* the text of json.dumps after the emoji, with ALL_OS: ", "os": ["darwin", "linux", "win32"]}}
METADATA_TAIL ==
  <<"\"",","," ","\"","o","s","\"",":"," ","[","\"","d","a","r","w","i","n","\"",","," ","\"","l","i","n","u","x","\"",","," ","\"","w","i","n","3","2","\"","]","}","}">>

\* ------------------------------------------------------------------------
\* Emoji tables, in the insertion order of the dict literals
\* ------------------------------------------------------------------------
EMOJI_MAP ==
  <<
    \* personas/engineering
    << <<"p","e","r","s","o","n","a","s","/","e","n","g","i","n","e","e","r","i","n","g">>,
       <<"U+1F527">> >>,
    \* personas/data
    << <<"p","e","r","s","o","n","a","s","/","d","a","t","a">>,
       <<"U+1F4CA">> >>,
    \* personas/devops
    << <<"p","e","r","s","o","n","a","s","/","d","e","v","o","p","s">>,
       <<"U+2699","U+FE0F">> >>,
    \* personas/claude-code
    << <<"p","e","r","s","o","n","a","s","/","c","l","a","u","d","e","-","c","o","d","e">>,
       <<"U+1F916">> >>,
    \* personas/security
    << <<"p","e","r","s","o","n","a","s","/","s","e","c","u","r","i","t","y">>,
       <<"U+1F6E1","U+FE0F">> >>,
    \* personas/web
    << <<"p","e","r","s","o","n","a","s","/","w","e","b">>,
       <<"U+1F310">> >>,
    \* personas/api
    << <<"p","e","r","s","o","n","a","s","/","a","p","i">>,
       <<"U+1F9EA">> >>,
    \* personas/domain/eve-esi
    << <<"p","e","r","s","o","n","a","s","/","d","o","m","a","i","n","/","e","v","e","-","e","s","i">>,
       <<"U+1F680">> >>,
    \* personas/domain/hauling-business-advisor
    << <<"p","e","r","s","o","n","a","s","/","d","o","m","a","i","n","/","h","a","u","l","i","n","g","-","b","u","s","i","n","e","s","s","-","a","d","v","i","s","o","r">>,
       <<"U+1F69B">> >>,
    \* personas/domain/hauling-image-estimator
    << <<"p","e","r","s","o","n","a","s","/","d","o","m","a","i","n","/","h","a","u","l","i","n","g","-","i","m","a","g","e","-","e","s","t","i","m","a","t","o","r">>,
       <<"U+1F69B">> >>,
    \* personas/domain/hauling-job-scheduler
    << <<"p","e","r","s","o","n","a","s","/","d","o","m","a","i","n","/","h","a","u","l","i","n","g","-","j","o","b","-","s","c","h","e","d","u","l","e","r">>,
       <<"U+1F69B">> >>,
    \* personas/domain/hauling-lead-qualifier
    << <<"p","e","r","s","o","n","a","s","/","d","o","m","a","i","n","/","h","a","u","l","i","n","g","-","l","e","a","d","-","q","u","a","l","i","f","i","e","r">>,
       <<"U+1F69B">> >>,
    \* personas/domain/hauling-quote-generator
    << <<"p","e","r","s","o","n","a","s","/","d","o","m","a","i","n","/","h","a","u","l","i","n","g","-","q","u","o","t","e","-","g","e","n","e","r","a","t","o","r">>,
       <<"U+1F69B">> >>,
    \* personas/domain/gamedev
    << <<"p","e","r","s","o","n","a","s","/","d","o","m","a","i","n","/","g","a","m","e","d","e","v">>,
       <<"U+1F3AE">> >>,
    \* personas/domain/tie-dye-business-coach
    << <<"p","e","r","s","o","n","a","s","/","d","o","m","a","i","n","/","t","i","e","-","d","y","e","-","b","u","s","i","n","e","s","s","-","c","o","a","c","h">>,
       <<"U+1F3A8">> >>,
    \* personas/domain/apple-dev-best-practices
    << <<"p","e","r","s","o","n","a","s","/","d","o","m","a","i","n","/","a","p","p","l","e","-","d","e","v","-","b","e","s","t","-","p","r","a","c","t","i","c","e","s">>,
       <<"U+1F4F1">> >>,
    \* personas/domain/mentor-linux
    << <<"p","e","r","s","o","n","a","s","/","d","o","m","a","i","n","/","m","e","n","t","o","r","-","l","i","n","u","x">>,
       <<"U+1F427">> >>,
    \* personas/domain/streamlit
    << <<"p","e","r","s","o","n","a","s","/","d","o","m","a","i","n","/","s","t","r","e","a","m","l","i","t">>,
       <<"U+1F4CA">> >>,
    \* personas/domain/strategic-planner
    << <<"p","e","r","s","o","n","a","s","/","d","o","m","a","i","n","/","s","t","r","a","t","e","g","i","c","-","p","l","a","n","n","e","r">>,
       <<"U+1F4CB">> >>,
    \* agents/system
    << <<"a","g","e","n","t","s","/","s","y","s","t","e","m">>,
       <<"U+1F4C1">> >>,
    \* agents/browser
    << <<"a","g","e","n","t","s","/","b","r","o","w","s","e","r">>,
       <<"U+1F50D">> >>,
    \* agents/email
    << <<"a","g","e","n","t","s","/","e","m","a","i","l">>,
       <<"U+2709","U+FE0F">> >>,
    \* agents/integrations
    << <<"a","g","e","n","t","s","/","i","n","t","e","g","r","a","t","i","o","n","s">>,
       <<"U+1F517">> >>,
    \* agents/orchestration
    << <<"a","g","e","n","t","s","/","o","r","c","h","e","s","t","r","a","t","i","o","n">>,
       <<"U+1F9E9">> >>,
    \* agents/analysis
    << <<"a","g","e","n","t","s","/","a","n","a","l","y","s","i","s">>,
       <<"U+1F52C">> >>,
    \* workflows
    << <<"w","o","r","k","f","l","o","w","s">>,
       <<"U+1F4CB">> >>
  >>

API_EMOJI_OVERRIDES ==
  <<
    \* api-tester
    << <<"a","p","i","-","t","e","s","t","e","r">>,
       <<"U+1F9EA">> >>,
    \* database-ops
    << <<"d","a","t","a","b","a","s","e","-","o","p","s">>,
       <<"U+1F5C4","U+FE0F">> >>,
    \* webhook-designer
    << <<"w","e","b","h","o","o","k","-","d","e","s","i","g","n","e","r">>,
       <<"U+1FAA9">> >>,
    \* oauth-integrator
    << <<"o","a","u","t","h","-","i","n","t","e","g","r","a","t","o","r">>,
       <<"U+1F510">> >>
  >>

FALLBACK_EMOJI ==
  << "U+1F4E6" >>

\* ------------------------------------------------------------------------
\* get_emoji
\* ------------------------------------------------------------------------
\* one step of the stable sort: item goes after every entry whose key is
\* at least as long
RECURSIVE InsertByLen(_, _)
InsertByLen(sorted, item) ==
  IF Len(sorted) = 0 THEN << item >>
  ELSE IF Len(sorted[1][1]) >= Len(item[1])
       THEN << sorted[1] >> \o InsertByLen(Tail(sorted), item)
       ELSE << item >> \o sorted

\* sorted(items, key=lambda x: -len(x[0]))
RECURSIVE SortByLenDesc(_, _)
SortByLenDesc(items, acc) ==
  IF Len(items) = 0 THEN acc
  ELSE SortByLenDesc(Tail(items), InsertByLen(acc, items[1]))

SORTED_EMOJI_ITEMS == SortByLenDesc(EMOJI_MAP, << >>)

\* the for loop of get_emoji: the first entry whose key the path starts with
RECURSIVE ScanPrefixes(_, _)
ScanPrefixes(items, skill_path) ==
  IF Len(items) = 0 THEN FALLBACK_EMOJI
  ELSE IF StartsWith(skill_path, items[1][1]) THEN items[1][2]
  ELSE ScanPrefixes(Tail(items), skill_path)

\* faulty variant of get_emoji: the prefix table is consulted before the
\* overrides
get_emoji_PrefixFirst(skill_path, skill_name) ==
  IF \E i \in 1..Len(EMOJI_MAP) : StartsWith(skill_path, EMOJI_MAP[i][1])
  THEN ScanPrefixes(SORTED_EMOJI_ITEMS, skill_path)
  ELSE IF \E i \in 1..Len(API_EMOJI_OVERRIDES) : API_EMOJI_OVERRIDES[i][1] = skill_name
  THEN LET i == CHOOSE j \in 1..Len(API_EMOJI_OVERRIDES) :
                  API_EMOJI_OVERRIDES[j][1] = skill_name
       IN  API_EMOJI_OVERRIDES[i][2]
  ELSE FALLBACK_EMOJI

get_emoji(skill_path, skill_name) ==
  IF \E i \in 1..Len(API_EMOJI_OVERRIDES) : API_EMOJI_OVERRIDES[i][1] = skill_name
  THEN LET i == CHOOSE j \in 1..Len(API_EMOJI_OVERRIDES) :
                  API_EMOJI_OVERRIDES[j][1] = skill_name
       IN  API_EMOJI_OVERRIDES[i][2]
  ELSE ScanPrefixes(SORTED_EMOJI_ITEMS, skill_path)

\* ------------------------------------------------------------------------
\* parse_frontmatter
\* ------------------------------------------------------------------------
\* faulty variant of parse_frontmatter: the body starts one character early
parse_frontmatter_ShortSkip(content) ==
  IF ~StartsWith(content, START_MARKER) THEN [ok |-> FALSE]
  ELSE LET end_idx == Find(content, END_MARKER, 4)
       IN  IF end_idx = -1 THEN [ok |-> FALSE]
           ELSE [ok      |-> TRUE,
                 fm_text |-> Slice(content, 4, end_idx),
                 body    |-> SliceFrom(content, end_idx + 4),
                 raw     |-> Slice(content, 0, end_idx + 5)]

\* ok = FALSE stands for the ValueError of either failure
parse_frontmatter(content) ==
  IF ~StartsWith(content, START_MARKER) THEN [ok |-> FALSE]
  ELSE LET end_idx == Find(content, END_MARKER, 4)
       IN  IF end_idx = -1 THEN [ok |-> FALSE]
           ELSE [ok      |-> TRUE,
                 fm_text |-> Slice(content, 4, end_idx),
                 body    |-> SliceFrom(content, end_idx + 5),
                 raw     |-> Slice(content, 0, end_idx + 5)]

\* ------------------------------------------------------------------------
\* build_metadata_line
\* ------------------------------------------------------------------------
build_metadata_line(skill_path, skill_name) ==
  METADATA_HEAD \o get_emoji(skill_path, skill_name) \o METADATA_TAIL

\* ------------------------------------------------------------------------
\* process_skill
\* ------------------------------------------------------------------------
\* skill_dir.name: the last component of the directory path
SkillName(skill_path) ==
  LET parts == Split(skill_path, SLASH)
  IN  parts[Len(parts)]

\* the condition of the "already has metadata" early return
HasMetadata(content) ==
  IF Contains(content, END_MARKER)
  THEN Contains(Split(content, END_MARKER)[1], NL_METADATA)
  ELSE FALSE

\* faulty variant of IsPersona: every skill counts as a persona
IsPersona_Always(skill_path) == TRUE

\* is_persona
IsPersona(skill_path) == StartsWith(skill_path, PERSONAS_PREFIX)

\* any(l.startswith("user-invocable:") for l in fm_lines)
AnyUserInvocable(fm_lines) ==
  \E k \in 1..Len(fm_lines) : StartsWith(fm_lines[k], USER_INVOCABLE_KEY)

\* faulty variant of InsertLoop: metadata_inserted is not tested, so the
\* additions follow every "description:" line
RECURSIVE InsertLoop_EveryDescription(_, _, _, _, _, _, _)
InsertLoop_EveryDescription(fm_lines, k, new_lines, metadata_inserted, user_invocable_inserted, metadata_line, is_persona) ==
  IF k > Len(fm_lines)
  THEN [new_lines |-> new_lines, metadata_inserted |-> metadata_inserted]
  ELSE LET line == fm_lines[k]
           appended == Append(new_lines, line)
       IN  IF StartsWith(line, DESCRIPTION_KEY)
           THEN IF is_persona /\ ~user_invocable_inserted
                   /\ ~AnyUserInvocable(fm_lines)
                THEN InsertLoop_EveryDescription(fm_lines, k + 1,
                       appended \o << metadata_line, USER_INVOCABLE_LINE >>,
                       TRUE, TRUE, metadata_line, is_persona)
                ELSE InsertLoop_EveryDescription(fm_lines, k + 1,
                       Append(appended, metadata_line),
                       TRUE, user_invocable_inserted, metadata_line, is_persona)
           ELSE InsertLoop_EveryDescription(fm_lines, k + 1, appended,
                  metadata_inserted, user_invocable_inserted, metadata_line,
                  is_persona)

\* the for loop over fm_lines, from line k on
RECURSIVE InsertLoop(_, _, _, _, _, _, _)
InsertLoop(fm_lines, k, new_lines, metadata_inserted, user_invocable_inserted, metadata_line, is_persona) ==
  IF k > Len(fm_lines)
  THEN [new_lines |-> new_lines, metadata_inserted |-> metadata_inserted]
  ELSE LET line == fm_lines[k]
           appended == Append(new_lines, line)
       IN  IF StartsWith(line, DESCRIPTION_KEY) /\ ~metadata_inserted
           THEN IF is_persona /\ ~user_invocable_inserted
                   /\ ~AnyUserInvocable(fm_lines)
                THEN InsertLoop(fm_lines, k + 1,
                                appended \o << metadata_line, USER_INVOCABLE_LINE >>,
                                TRUE, TRUE, metadata_line, is_persona)
                ELSE InsertLoop(fm_lines, k + 1,
                                Append(appended, metadata_line),
                                TRUE, user_invocable_inserted,
                                metadata_line, is_persona)
           ELSE InsertLoop(fm_lines, k + 1, appended, metadata_inserted,
                           user_invocable_inserted, metadata_line, is_persona)

\* new_lines as it stands when the file is reconstructed
BuildNewLines(fm_lines, metadata_line, is_persona) ==
  LET loop == InsertLoop(fm_lines, 1, << >>, FALSE, FALSE, metadata_line, is_persona)
  IN  IF ~loop.metadata_inserted
      THEN IF is_persona /\ ~AnyUserInvocable(fm_lines)
           THEN loop.new_lines \o << metadata_line, USER_INVOCABLE_LINE >>
           ELSE Append(loop.new_lines, metadata_line)
      ELSE loop.new_lines

\* faulty variant of Reconstruct: the newline after the closing marker is
\* missing
Reconstruct_NoNewlineAfterMarker(new_lines, body) ==
  START_MARKER \o Join(new_lines, << NL >>) \o << NL >> \o << "-", "-", "-" >> \o body

\* new_content
Reconstruct(new_lines, body) ==
  START_MARKER \o Join(new_lines, << NL >>) \o END_MARKER \o body

\* faulty variant of Persisted: dry_run is ignored
Persisted_AlwaysWrites(content, new_content, dry_run) == new_content

\* the file's content once the call is past the dry_run test: write_text
\* is skipped in dry-run mode
Persisted(content, new_content, dry_run) ==
  IF dry_run THEN content ELSE new_content

\* One call of process_skill on a file at skill_path holding content.
\* ret is the returned boolean, written the file's content after the call,
\* outcome the branch that returned (the word of its status line); fm_lines
\* and new_lines are the locals of the call, empty when it returned early.  The name check only prints a
\* warning and is left out.
process_skill(skill_path, content, dry_run) ==
  LET skill_name == SkillName(skill_path)
      parsed == parse_frontmatter(content)
      fm_lines == Split(parsed.fm_text, << NL >>)
      metadata_line == build_metadata_line(skill_path, skill_name)
      is_persona == IsPersona(skill_path)
      new_lines == BuildNewLines(fm_lines, metadata_line, is_persona)
      new_content == Reconstruct(new_lines, parsed.body)
  IN  IF HasMetadata(content)
      THEN [ret |-> FALSE, outcome |-> "SKIP", written |-> content,
            fm_lines |-> << >>, new_lines |-> << >>]
      ELSE IF ~parsed.ok
      THEN [ret |-> FALSE, outcome |-> "ERROR", written |-> content,
            fm_lines |-> << >>, new_lines |-> << >>]
      ELSE [ret |-> TRUE, outcome |-> IF dry_run THEN "DRY-RUN" ELSE "OK",
            written |-> Persisted(content, new_content, dry_run),
            fm_lines |-> fm_lines, new_lines |-> new_lines]

\* ------------------------------------------------------------------------
\* Inputs: documents and file trees
\* ------------------------------------------------------------------------
\* "---"
MARKER_LINE ==
  <<"-","-","-">>

\* "description: d"
LINE_DESCRIPTION ==
  <<"d","e","s","c","r","i","p","t","i","o","n",":"," ","d">>

\* "metadata: m"
LINE_METADATA ==
  <<"m","e","t","a","d","a","t","a",":"," ","m">>

\* "user-invocable: false"
LINE_USER_INVOCABLE ==
  <<"u","s","e","r","-","i","n","v","o","c","a","b","l","e",":"," ","f","a","l","s","e">>

\* "x"
LINE_OTHER ==
  <<"x">>

\* the lines documents are made of
LinePool ==
  { MARKER_LINE, LINE_DESCRIPTION, LINE_METADATA, LINE_USER_INVOCABLE, LINE_OTHER }

\* every text of at most n lines of LinePool, with or without a final newline
Documents(n) ==
  { Join(ls, << NL >>) \o tail :
      ls \in UNION { [1..k -> LinePool] : k \in 0..n },
      tail \in { << >>, << NL >> } }

\* the skill directories of the tree, relative to REPO_ROOT, in the order
\* main discovers them (personas, then agents, then workflows)
SKILL_DIRS ==
  <<
    \* personas/api/database-ops
    <<"p","e","r","s","o","n","a","s","/","a","p","i","/","d","a","t","a","b","a","s","e","-","o","p","s">>,
    \* agents/email/x
    <<"a","g","e","n","t","s","/","e","m","a","i","l","/","x">>,
    \* workflows/w
    <<"w","o","r","k","f","l","o","w","s","/","w">>
  >>
\* documents of a tree with several files: well-formed, already carrying
\* metadata, without start marker, without closing marker, and with a
\* marker line right after the start marker
SampleDocs ==
  { Join(<< MARKER_LINE, LINE_DESCRIPTION, MARKER_LINE, LINE_OTHER >>, << NL >>) \o << NL >>,
    Join(<< MARKER_LINE, LINE_METADATA, MARKER_LINE >>, << NL >>) \o << NL >>,
    Join(<< LINE_OTHER, MARKER_LINE >>, << NL >>) \o << NL >>,
    Join(<< MARKER_LINE, LINE_DESCRIPTION >>, << NL >>) \o << NL >>,
    Join(<< MARKER_LINE, MARKER_LINE, MARKER_LINE >>, << NL >>) \o << NL >> }

\* a tree maps the index (in SKILL_DIRS) of each skill directory that holds a
\* SKILL.md to the text of that file
SingleTrees ==
  UNION { [{d} -> Documents(MaxLines)] : d \in 1..Len(SKILL_DIRS) }

BatchTrees ==
  UNION { [D -> SampleDocs] :
            D \in { E \in SUBSET (1..Len(SKILL_DIRS)) :
                      Cardinality(E) >= 2 /\ Cardinality(E) <= MaxFiles } }

\* ------------------------------------------------------------------------
\* State
\* ------------------------------------------------------------------------
VARIABLES
  fs,         \* the SKILL.md files: skill directory index -> text
  runs,       \* the finished runs of main, oldest first
  unit        \* a direct call of get_emoji or parse_frontmatter

vars == << fs, runs, unit >>

\* sorted(glob(...)) for the three roots: the directories that hold a
\* SKILL.md, in SKILL_DIRS order
RECURSIVE Ascending(_)
Ascending(S) ==
  IF S = {} THEN << >>
  ELSE LET m == CHOOSE x \in S : \A y \in S : x <= y
       IN  << m >> \o Ascending(S \ {m})

Discover(tree) == Ascending(DOMAIN tree)

\* faulty variant of ForLoop: a file that cannot be parsed ends the loop
RECURSIVE ForLoop_AbortOnError(_, _, _, _)
ForLoop_AbortOnError(skill_files, k, dry_run, st) ==
  IF k > Len(skill_files) THEN st
  ELSE LET d == skill_files[k]
           r == process_skill(SKILL_DIRS[d], st.fs[d], dry_run)
           nxt == [fs       |-> [st.fs EXCEPT ![d] = r.written],
                   total    |-> st.total + 1,
                   modified |-> IF r.ret THEN st.modified + 1 ELSE st.modified,
                   calls    |-> Append(st.calls,
                                 [dir |-> d, before |-> st.fs[d], after |-> r.written,
                                  ret |-> r.ret, outcome |-> r.outcome,
                                  fm_lines |-> r.fm_lines, new_lines |-> r.new_lines])]
       IN  IF r.outcome = "ERROR" THEN nxt
           ELSE ForLoop_AbortOnError(skill_files, k + 1, dry_run, nxt)

\* the for loop of main from position k of skill_files on; st holds the
\* files, main's total and modified, and the record of the process_skill
\* calls made so far
RECURSIVE ForLoop(_, _, _, _)
ForLoop(skill_files, k, dry_run, st) ==
  IF k > Len(skill_files) THEN st
  ELSE LET d == skill_files[k]
           r == process_skill(SKILL_DIRS[d], st.fs[d], dry_run)
           nxt == [fs       |-> [st.fs EXCEPT ![d] = r.written],
                   total    |-> st.total + 1,
                   modified |-> IF r.ret THEN st.modified + 1 ELSE st.modified,
                   calls    |-> Append(st.calls,
                                 [dir |-> d, before |-> st.fs[d], after |-> r.written,
                                  ret |-> r.ret, outcome |-> r.outcome,
                                  fm_lines |-> r.fm_lines, new_lines |-> r.new_lines])]
       IN  ForLoop(skill_files, k + 1, dry_run, nxt)

Init ==
  /\ fs \in SingleTrees \cup BatchTrees
  /\ runs = << >>
  /\ unit = [fn |-> "none"]

\* one run of main with the given --dry-run flag: discover the files, loop
\* over them, print the summary, return 0
Main(dry_run) ==
  /\ Len(runs) < MaxRuns
  /\ LET skill_files == Discover(fs)
         out == ForLoop(skill_files, 1, dry_run,
                        [fs |-> fs, total |-> 0, modified |-> 0, calls |-> << >>])
     IN  /\ fs' = out.fs
         /\ runs' = Append(runs, [dry_run |-> dry_run, skill_files |-> skill_files,
                                  total |-> out.total, modified |-> out.modified,
                                  exit_code |-> 0, calls |-> out.calls])
  /\ UNCHANGED unit

MainDryRun == Main(TRUE)

MainWrite == Main(FALSE)

Next == MainDryRun \/ MainWrite

Spec == Init /\ [][Next]_vars

\* ------------------------------------------------------------------------
\* Direct calls of the pure functions
\* ------------------------------------------------------------------------
\* the paths get_emoji is called with: every key of EMOJI_MAP, the key
\* followed by a further component, by a further character, and cut short
\* by one character; the skill directories; "personas"; the empty path
EmojiPaths ==
  UNION { { EMOJI_MAP[i][1],
            EMOJI_MAP[i][1] \o << "/", "x" >>,
            EMOJI_MAP[i][1] \o << "x" >>,
            SubSeq(EMOJI_MAP[i][1], 1, Len(EMOJI_MAP[i][1]) - 1) } :
          i \in 1..Len(EMOJI_MAP) }
  \cup { SKILL_DIRS[d] : d \in 1..Len(SKILL_DIRS) }
  \cup { SubSeq(PERSONAS_PREFIX, 1, Len(PERSONAS_PREFIX) - 1), << >> }

\* the leaf names get_emoji is called with: every override key, and one
\* name that is no key
EmojiNames ==
  { API_EMOJI_OVERRIDES[i][1] : i \in 1..Len(API_EMOJI_OVERRIDES) }
  \cup { << "x" >> }

InitPure ==
  /\ fs = << >>
  /\ runs = << >>
  /\ \/ \E p \in EmojiPaths, n \in EmojiNames :
          unit = [fn |-> "get_emoji", skill_path |-> p, skill_name |-> n,
                  done |-> FALSE]
     \/ \E t \in Documents(MaxLines) :
          unit = [fn |-> "parse_frontmatter", content |-> t, done |-> FALSE]

CallGetEmoji ==
  /\ unit.fn = "get_emoji"
  /\ ~unit.done
  /\ unit' = [fn |-> "get_emoji", skill_path |-> unit.skill_path,
              skill_name |-> unit.skill_name, done |-> TRUE,
              result |-> get_emoji(unit.skill_path, unit.skill_name)]
  /\ UNCHANGED << fs, runs >>

CallParseFrontmatter ==
  /\ unit.fn = "parse_frontmatter"
  /\ ~unit.done
  /\ unit' = [fn |-> "parse_frontmatter", content |-> unit.content,
              done |-> TRUE, result |-> parse_frontmatter(unit.content)]
  /\ UNCHANGED << fs, runs >>

NextPure == CallGetEmoji \/ CallParseFrontmatter

SpecPure == InitPure /\ [][NextPure]_vars

\* ------------------------------------------------------------------------
\* Vocabulary of the properties
\* ------------------------------------------------------------------------
Lines(text) == Split(text, << NL >>)

\* the lines of the metadata block parse_frontmatter returns for text
BlockLines(text) == Lines(parse_frontmatter(text).fm_text)

AnyLineWith(lines, key) ==
  \E k \in 1..Len(lines) : StartsWith(lines[k], key)

CountLinesWith(lines, key) ==
  Cardinality({ k \in 1..Len(lines) : StartsWith(lines[k], key) })

CountLinesEqual(lines, line) ==
  Cardinality({ k \in 1..Len(lines) : lines[k] = line })

\* "metadata:"
METADATA_KEY == SubSeq(NL_METADATA, 2, Len(NL_METADATA))

\* the positions of the marker lines that follow the first line of text and
\* are ended by a newline
MarkerLinesAfterFirst(text) ==
  { k \in 2..(Len(Lines(text)) - 1) : Lines(text)[k] = MARKER_LINE }

\* the run main has just finished, if any: every run is this run in the
\* state that follows it
LastRun ==
  IF Len(runs) > 0 THEN { Len(runs) } ELSE {}

\* the process_skill calls of that run
LastCalls ==
  UNION { { runs[n].calls[k] : k \in 1..Len(runs[n].calls) } : n \in LastRun }

MetadataLineOf(c) ==
  build_metadata_line(SKILL_DIRS[c.dir], SkillName(SKILL_DIRS[c.dir]))

\* ------------------------------------------------------------------------
\* C1
\* ------------------------------------------------------------------------
\* C1: when main runs twice in succession in write mode, every file is, after
\* the second run, identical to what it was after the first, and the second
\* process_skill call on it returns False.
C1_SecondRunIsNoOp ==
  \A r \in { n - 1 : n \in LastRun } \ {0} :
    (~runs[r].dry_run /\ ~runs[r + 1].dry_run) =>
      \A k \in 1..Len(runs[r].calls) :
        /\ runs[r + 1].calls[k].after = runs[r].calls[k].after
        /\ runs[r + 1].calls[k].ret = FALSE

\* ------------------------------------------------------------------------
\* C2
\* ------------------------------------------------------------------------
\* C2: a document that begins with the start marker and has, before the
\* closing marker parse_frontmatter uses, a line beginning with "metadata:"
\* makes process_skill return False and leaves the file as it was, in write
\* mode and in dry-run mode.
C2_MetadataPresentSkips ==
  \A c \in LastCalls :
    ( /\ StartsWith(c.before, START_MARKER)
      /\ parse_frontmatter(c.before).ok
      /\ AnyLineWith(BlockLines(c.before), METADATA_KEY) )
    => (c.ret = FALSE /\ c.after = c.before)

\* ------------------------------------------------------------------------
\* C3
\* ------------------------------------------------------------------------
\* a text without the start marker, or without a closing marker line
Malformed(text) ==
  \/ ~StartsWith(text, START_MARKER)
  \/ MarkerLinesAfterFirst(text) = {}

\* C3: a malformed file is left unwritten and makes process_skill return
\* False; every finished run of main has called process_skill on every
\* discovered file in order, counts every file in total and exactly the
\* files whose call returned True in modified, and returns 0.
C3_BadFileIsolated ==
  /\ \A c \in LastCalls :
       Malformed(c.before) => (c.ret = FALSE /\ c.after = c.before)
  /\ \A r \in LastRun :
       /\ Len(runs[r].calls) = Len(runs[r].skill_files)
       /\ \A k \in 1..Len(runs[r].calls) :
            runs[r].calls[k].dir = runs[r].skill_files[k]
       /\ runs[r].total = Len(runs[r].skill_files)
       /\ runs[r].modified =
            Cardinality({ k \in 1..Len(runs[r].calls) : runs[r].calls[k].ret })
       /\ runs[r].exit_code = 0

\* a finished run whose first file was malformed and whose second file was
\* modified
C3_Witness ==
  \E r \in LastRun :
    /\ Len(runs[r].calls) >= 2
    /\ Malformed(runs[r].calls[1].before)
    /\ runs[r].calls[1].outcome = "ERROR"
    /\ runs[r].calls[2].outcome = "OK"
    /\ runs[r].total = 2
    /\ runs[r].modified = 1

\* ------------------------------------------------------------------------
\* C4
\* ------------------------------------------------------------------------
\* no call on a file outside personas/ changes the number of
\* "user-invocable:" lines of the file
C4_NonPersonaNeverGetsFlag ==
  \A c \in LastCalls :
    ~StartsWith(SKILL_DIRS[c.dir], PERSONAS_PREFIX) =>
      CountLinesWith(Lines(c.after), USER_INVOCABLE_KEY)
        = CountLinesWith(Lines(c.before), USER_INVOCABLE_KEY)

\* the metadata block of text holds exactly one "user-invocable: true" line
\* and no other "user-invocable:" line
ExactlyOneFlag(text) ==
  /\ parse_frontmatter(text).ok
  /\ CountLinesEqual(BlockLines(text), USER_INVOCABLE_LINE) = 1
  /\ CountLinesWith(BlockLines(text), USER_INVOCABLE_KEY) = 1

\* call c is on a file under personas/ that parses and has no
\* "user-invocable:" line in its metadata block
C4_PersonaWithoutFlag(c) ==
  /\ StartsWith(SKILL_DIRS[c.dir], PERSONAS_PREFIX)
  /\ parse_frontmatter(c.before).ok
  /\ ~AnyLineWith(BlockLines(c.before), USER_INVOCABLE_KEY)

\* call c is on a file whose metadata block has no "metadata:" line
C4_WithoutMetadata(c) ==
  ~AnyLineWith(BlockLines(c.before), METADATA_KEY)

\* C4 as stated: outside personas/ no "user-invocable:" line is ever added;
\* under personas/, a document whose metadata block has no "user-invocable:"
\* line has exactly one "user-invocable: true" line in its block after one
\* write-mode run and after two.
C4_FlagScoping ==
  /\ C4_NonPersonaNeverGetsFlag
  /\ \A n \in LastRun :
       ~runs[n].dry_run =>
         \A k \in 1..Len(runs[n].calls) :
           C4_PersonaWithoutFlag(runs[n].calls[k])
           => ExactlyOneFlag(runs[n].calls[k].after)
  /\ \A n \in LastRun \ {1} :
       (~runs[n - 1].dry_run /\ ~runs[n].dry_run) =>
         \A k \in 1..Len(runs[n].calls) :
           C4_PersonaWithoutFlag(runs[n - 1].calls[k])
           => ExactlyOneFlag(runs[n].calls[k].after)

\* C4 amended: as C4, for the documents under personas/ whose metadata block
\* has neither a "user-invocable:" line nor a "metadata:" line.
C4_FlagScopingAmended ==
  /\ C4_NonPersonaNeverGetsFlag
  /\ \A n \in LastRun :
       ~runs[n].dry_run =>
         \A k \in 1..Len(runs[n].calls) :
           ( /\ C4_PersonaWithoutFlag(runs[n].calls[k])
             /\ C4_WithoutMetadata(runs[n].calls[k]) )
           => ExactlyOneFlag(runs[n].calls[k].after)
  /\ \A n \in LastRun \ {1} :
       (~runs[n - 1].dry_run /\ ~runs[n].dry_run) =>
         \A k \in 1..Len(runs[n].calls) :
           ( /\ C4_PersonaWithoutFlag(runs[n - 1].calls[k])
             /\ C4_WithoutMetadata(runs[n - 1].calls[k]) )
           => ExactlyOneFlag(runs[n].calls[k].after)

\* two write-mode runs over a persona document without either line: the
\* first wrote the flag, the second skipped the file
C4_Witness ==
  /\ Len(runs) = 2
  /\ ~runs[1].dry_run
  /\ ~runs[2].dry_run
  /\ C4_PersonaWithoutFlag(runs[1].calls[1])
  /\ C4_WithoutMetadata(runs[1].calls[1])
  /\ runs[1].calls[1].outcome = "OK"
  /\ runs[2].calls[1].outcome = "SKIP"
  /\ ExactlyOneFlag(runs[2].calls[1].after)

\* ------------------------------------------------------------------------
\* C5
\* ------------------------------------------------------------------------
IsOverrideKey(name) ==
  \E i \in 1..Len(API_EMOJI_OVERRIDES) : API_EMOJI_OVERRIDES[i][1] = name

\* the entries of EMOJI_MAP whose key is a prefix of path
MatchingEntries(path) ==
  { i \in 1..Len(EMOJI_MAP) : StartsWith(path, EMOJI_MAP[i][1]) }

\* C5: get_emoji returns the override value when the leaf name is an
\* override key; otherwise the value of the longest EMOJI_MAP key that is a
\* prefix of the path; otherwise the fallback.
C5_EmojiResolution ==
  (unit.fn = "get_emoji" /\ unit.done) =>
    IF IsOverrideKey(unit.skill_name)
    THEN \E i \in 1..Len(API_EMOJI_OVERRIDES) :
           /\ API_EMOJI_OVERRIDES[i][1] = unit.skill_name
           /\ unit.result = API_EMOJI_OVERRIDES[i][2]
    ELSE IF MatchingEntries(unit.skill_path) # {}
    THEN \E i \in MatchingEntries(unit.skill_path) :
           /\ \A j \in MatchingEntries(unit.skill_path) :
                Len(EMOJI_MAP[i][1]) >= Len(EMOJI_MAP[j][1])
           /\ unit.result = EMOJI_MAP[i][2]
    ELSE unit.result = FALLBACK_EMOJI

\* a call with an override key as leaf name and a path some EMOJI_MAP key
\* is a prefix of, whose value differs from the override's
C5_Witness ==
  /\ unit.fn = "get_emoji"
  /\ unit.done
  /\ IsOverrideKey(unit.skill_name)
  /\ \E i \in MatchingEntries(unit.skill_path) :
       EMOJI_MAP[i][2] # unit.result

\* ------------------------------------------------------------------------
\* C6
\* ------------------------------------------------------------------------
\* the lines process_skill adds for call c
Additions(c) ==
  IF StartsWith(SKILL_DIRS[c.dir], PERSONAS_PREFIX)
     /\ ~AnyLineWith(c.fm_lines, USER_INVOCABLE_KEY)
  THEN << MetadataLineOf(c), USER_INVOCABLE_LINE >>
  ELSE << MetadataLineOf(c) >>

DescriptionLines(lines) ==
  { k \in 1..Len(lines) : StartsWith(lines[k], DESCRIPTION_KEY) }

\* C6: for a parsed block without "metadata:" line, new_lines is the block
\* with the additions right after the first "description:" line, or at the
\* end of the block when there is no such line.
C6_InsertionPlacement ==
  \A c \in LastCalls :
    ( /\ c.outcome \in {"OK", "DRY-RUN"}
      /\ ~AnyLineWith(c.fm_lines, METADATA_KEY) ) =>
      /\ c.fm_lines = BlockLines(c.before)
      /\ IF DescriptionLines(c.fm_lines) # {}
         THEN LET k == CHOOSE i \in DescriptionLines(c.fm_lines) :
                         \A j \in DescriptionLines(c.fm_lines) : i <= j
              IN  c.new_lines = SubSeq(c.fm_lines, 1, k) \o Additions(c)
                                \o SubSeq(c.fm_lines, k + 1, Len(c.fm_lines))
         ELSE c.new_lines = c.fm_lines \o Additions(c)

\* a call on a persona document with two "description:" lines, the first of
\* them not the first line of the block
C6_Witness ==
  \E c \in LastCalls :
    /\ c.outcome = "OK"
    /\ StartsWith(SKILL_DIRS[c.dir], PERSONAS_PREFIX)
    /\ Cardinality(DescriptionLines(c.fm_lines)) = 2
    /\ Len(c.new_lines) = Len(c.fm_lines) + 2

\* ------------------------------------------------------------------------
\* C7
\* ------------------------------------------------------------------------
\* C7: no call of a dry-run leaves a file changed; and a dry run and a
\* write-mode run that start from the same file contents get the same
\* return value for every file and end with the same modified count.
C7_DryRun ==
  /\ \A r \in LastRun :
       runs[r].dry_run =>
         \A k \in 1..Len(runs[r].calls) :
           runs[r].calls[k].after = runs[r].calls[k].before
  /\ \A r1, r2 \in 1..Len(runs) :
       ( /\ (r1 \in LastRun \/ r2 \in LastRun)
         /\ runs[r1].dry_run
         /\ ~runs[r2].dry_run
         /\ \A k \in 1..Len(runs[r1].calls) :
              runs[r1].calls[k].before = runs[r2].calls[k].before )
       => /\ \A k \in 1..Len(runs[r1].calls) :
               runs[r1].calls[k].ret = runs[r2].calls[k].ret
          /\ runs[r1].modified = runs[r2].modified

\* a dry run followed by a write-mode run over two files, one of which is
\* modified and one not
C7_Witness ==
  /\ Len(runs) = 2
  /\ runs[1].dry_run
  /\ ~runs[2].dry_run
  /\ runs[1].total = 2
  /\ runs[1].modified = 1
  /\ runs[2].modified = 1
  /\ \E k \in 1..2 : runs[2].calls[k].after # runs[2].calls[k].before

\* ------------------------------------------------------------------------
\* C8
\* ------------------------------------------------------------------------
\* C8: when parse_frontmatter succeeds, the block it returns has no line
\* equal to "---" and the body is everything after the first marker line
\* that follows the start-marker line.
C8_FirstMarkerLineEnds ==
  (unit.fn = "parse_frontmatter" /\ unit.done /\ unit.result.ok) =>
    /\ CountLinesEqual(Lines(unit.result.fm_text), MARKER_LINE) = 0
    /\ MarkerLinesAfterFirst(unit.content) # {}
    /\ LET first == CHOOSE i \in MarkerLinesAfterFirst(unit.content) :
                      \A j \in MarkerLinesAfterFirst(unit.content) : i <= j
       IN  unit.result.body =
             Join(SubSeq(Lines(unit.content), first + 1,
                         Len(Lines(unit.content))), << NL >>)

\* ------------------------------------------------------------------------
\* C9
\* ------------------------------------------------------------------------
\* C9: when parse_frontmatter succeeds, "---\n" + block + "\n---\n" + body
\* is the text it was given.
C9_Reassembly ==
  (unit.fn = "parse_frontmatter" /\ unit.done /\ unit.result.ok) =>
    START_MARKER \o unit.result.fm_text \o END_MARKER \o unit.result.body
      = unit.content

\* a successful parse with a non-empty block and a non-empty body
C9_Witness ==
  /\ unit.fn = "parse_frontmatter"
  /\ unit.done
  /\ unit.result.ok
  /\ Len(unit.result.fm_text) > 0
  /\ Len(unit.result.body) > 0

\* ------------------------------------------------------------------------
\* C10
\* ------------------------------------------------------------------------
\* new is old with one "metadata:" line added, and possibly one
\* "user-invocable: true" line right after it
OneMetadataLineAdded(old, new) ==
  \E k \in 0..Len(old) :
    \E extra \in { << >>, << USER_INVOCABLE_LINE >> } :
      /\ Len(new) = Len(old) + 1 + Len(extra)
      /\ StartsWith(new[k + 1], METADATA_KEY)
      /\ new = SubSeq(old, 1, k) \o << new[k + 1] >> \o extra
               \o SubSeq(old, k + 1, Len(old))

\* C10: the text process_skill writes parses again; its block is the
\* original block with one "metadata:" line (and at most one
\* "user-invocable: true" line) added, and its body is the original body.
C10_RewrittenTextParses ==
  \A c \in LastCalls :
    c.outcome = "OK" =>
      /\ parse_frontmatter(c.after).ok
      /\ OneMetadataLineAdded(BlockLines(c.before), BlockLines(c.after))
      /\ parse_frontmatter(c.after).body = parse_frontmatter(c.before).body

\* a write of a document with a non-empty body that gained both lines
C10_Witness ==
  \E c \in LastCalls :
    /\ c.outcome = "OK"
    /\ Len(parse_frontmatter(c.before).body) > 0
    /\ Len(BlockLines(c.after)) = Len(BlockLines(c.before)) + 2
====
